---- MODULE Spec2Model ----
(***************************************************************************)
(* A model of the composable-architecture store: the Effect tree and its   *)
(* resolution (Effect.ts part of src/src/index.ts), the reducer operators  *)
(* (src/src/Reducer.ts), the EffectContextTree and the RootStore loop.     *)
(*                                                                         *)
(* JavaScript runs one job at a time.  A call of RootStore.send is         *)
(* synchronous, so it is modelled as a call stack of send frames: a frame  *)
(* is pushed by a caller, stepped until it returns, and only a cleanup     *)
(* hook or a subscriber callback (both called synchronously by the store)  *)
(* can push a frame on top of another.  The tasks of long-running effects  *)
(* run as microtasks, that is only while the stack is empty.               *)
(***************************************************************************)
EXTENDS Integers, Sequences, FiniteSets, TLC

VARIABLES
    state,          \* RootStore.state; a model value stands for one object reference
    reducer,        \* RootStore.reducer: which reducer the store was built with
    namedEffects,   \* RootStore.namedEffects: id -> context
    effectTree,     \* RootStore.effectTree
    callbacks,      \* RootStore.callbacks, keys in insertion order
    contexts,       \* every EffectContext allocated so far, with its task's position
    stack,          \* the active calls of RootStore.send, innermost last
    log,            \* history of the counter store: the increment actions
                    \* dispatched, the calls of each callback, and the number
                    \* dispatched before each callback was registered
    bench           \* an Effect value built with the Effect API outside a store

storeVars == <<state, reducer, namedEffects, effectTree, callbacks, contexts, stack, log>>

vars == <<state, reducer, namedEffects, effectTree, callbacks, contexts, stack, log, bench>>

----------------------------------------------------------------------------
(* Bounds of the model *)

MaxEffects == 2     \* long-running effects resolved in one run
MaxHooked == 1      \* the same, for the reducer whose effects install cleanup hooks
MaxMounted == 1     \* the same, for the reducers that mount a child
MaxEnq == 2         \* actions one send call enqueues
MaxDepth == 2       \* nested calls of send
MaxTreeContexts == 3    \* contexts added to a tree used on its own
MaxCount == 4       \* increment actions dispatched to the counter store
MaxLate == 2        \* elements a sequence pulls from its producer with the flag set
MaxNodes == 5       \* Effect objects of an effect tree built outside a store
MaxScope == 1       \* strings of the scope prefix of one Effect object
MaxMaps == 1        \* map() calls an effect has gone through

(* The values the environment draws from *)

(* JavaScript values that serve as actions: a string, an object {kind, value}  *)
(* with a string payload, or null.                                            *)
Str(s) == [t |-> "str", kind |-> "", value |-> s]
Obj(k, v) == [t |-> "obj", kind |-> k, value |-> v]
Null == [t |-> "null", kind |-> "", value |-> ""]

\* `!v`
Falsy(v) == v.t = "null" \/ (v.t = "str" /\ v.value = "")

EffectValues == {Str("x")}      \* what a producer emits
HookActions == {Str("y")}       \* what a cleanup hook sends
CallbackActions == {Str("x")}   \* what a subscriber callback sends
States == {"s0", "s1"}          \* state objects
SubIds == {"u1", "u2"}          \* subscriber ids
NoId == "-"

----------------------------------------------------------------------------
(* Effect: src/src/index.ts 410-532 *)

NoNode == [kind |-> "none", scope |-> <<>>, id |-> NoId, value |-> Null,
           hook |-> "none", label |-> NoId, map |-> <<>>]

EffectOf(node, children, scope) ==
    [node |-> node, children |-> children, scope |-> scope]

EffectNone == EffectOf(NoNode, <<>>, <<>>)

cancelScope(scope) ==
    EffectOf([NoNode EXCEPT !.kind = "cancel-scope", !.scope = scope], <<>>, <<>>)

cancelId(id) ==
    EffectOf([NoNode EXCEPT !.kind = "cancel-id", !.id = id], <<>>, <<>>)

ActionEffect(v) ==
    EffectOf([NoNode EXCEPT !.kind = "action", !.value = v], <<>>, <<>>)

\* a promise or generator node: kind, optional id, whether the producer installs
\* context.onCancellation, and a label naming the producer
AsyncEffect(kind, id, hook, label) ==
    EffectOf([NoNode EXCEPT !.kind = kind, !.id = id, !.hook = hook,
                            !.label = label], <<>>, <<>>)

RECURSIVE isEmpty(_)
isEmpty(e) ==
    IF e = EffectNone THEN TRUE
    ELSE IF e.node.kind # "none" THEN FALSE
    ELSE \A i \in 1..Len(e.children) : isEmpty(e.children[i])

RECURSIVE FilterNonEmpty(_)
FilterNonEmpty(effects) ==
    IF effects = <<>> THEN <<>>
    ELSE IF isEmpty(Head(effects)) THEN FilterNonEmpty(Tail(effects))
    ELSE <<Head(effects)>> \o FilterNonEmpty(Tail(effects))

\* a merge that returns a parent even for a single non-empty input
mergeAlwaysParent(effects) ==
    LET nonEmptyEffects == FilterNonEmpty(effects)
    IN  IF Len(nonEmptyEffects) = 0 THEN EffectNone
        ELSE EffectOf(NoNode, nonEmptyEffects, <<>>)

merge(effects) ==
    LET nonEmptyEffects == FilterNonEmpty(effects)
    IN  IF Len(nonEmptyEffects) = 0 THEN EffectNone
        ELSE IF Len(nonEmptyEffects) = 1 THEN nonEmptyEffects[1]
        ELSE EffectOf(NoNode, nonEmptyEffects, <<>>)

\* transforms are named; "embed" is casePath("child").embed (index.ts 243-245).
\* The value of an object is a string: an object put into an object is written
\* kind:value
Transform(f, v) ==
    IF f = "embed"
    THEN Obj("child", IF v.t = "obj" THEN v.kind \o ":" \o v.value ELSE v.value)
    ELSE v

RECURSIVE ApplyMap(_, _)
ApplyMap(fs, v) ==
    IF fs = <<>> THEN v ELSE ApplyMap(Tail(fs), Transform(Head(fs), v))

\* a map that leaves the value of an action node alone
mapEffectNodeKeepsValue(node, f) ==
    IF node.kind \in {"cancel-scope", "cancel-id", "none"} THEN node
    ELSE [node EXCEPT !.map = Append(@, f)]

mapEffectNode(node, f) ==
    IF node.kind \in {"cancel-scope", "cancel-id", "none"} THEN node
    ELSE IF node.kind = "action"
    THEN [node EXCEPT !.value = Transform(f, node.value), !.map = Append(@, f)]
    ELSE [node EXCEPT !.map = Append(@, f)]

RECURSIVE map(_, _)
map(e, f) ==
    EffectOf(IF e.node.kind # "none" THEN mapEffectNode(e.node, f) ELSE NoNode,
             [i \in 1..Len(e.children) |-> map(e.children[i], f)],
             <<>>)

cancellationScope(e, scope) ==
    [e EXCEPT !.scope = <<scope>> \o @]

----------------------------------------------------------------------------
(* Effect resolution: src/src/index.ts 534-604 *)

NoUnit == [kind |-> "none", scope |-> <<>>, id |-> NoId, value |-> Null,
           context |-> 0, node |-> NoNode]

\* a resolution of nodes that leaves the path of a cancel-scope node as it is
resolveEffectNodeOwnPath(effectNode, scope) ==
    IF effectNode.kind = "cancel-scope"
    THEN [NoUnit EXCEPT !.kind = "cancel-scope", !.scope = effectNode.scope]
    ELSE IF effectNode.kind = "cancel-id"
    THEN [NoUnit EXCEPT !.kind = "cancel-id", !.id = effectNode.id]
    ELSE IF effectNode.kind = "action"
    THEN [NoUnit EXCEPT !.kind = "action", !.value = effectNode.value]
    ELSE [NoUnit EXCEPT !.kind = "long-running", !.scope = scope,
                        !.id = effectNode.id, !.node = effectNode]

resolveEffectNode(effectNode, scope) ==
    IF effectNode.kind = "cancel-scope"
    THEN [NoUnit EXCEPT !.kind = "cancel-scope", !.scope = scope \o effectNode.scope]
    ELSE IF effectNode.kind = "cancel-id"
    THEN [NoUnit EXCEPT !.kind = "cancel-id", !.id = effectNode.id]
    ELSE IF effectNode.kind = "action"
    THEN [NoUnit EXCEPT !.kind = "action", !.value = effectNode.value]
    ELSE [NoUnit EXCEPT !.kind = "long-running", !.scope = scope,
                        !.id = effectNode.id, !.node = effectNode]

\* a resolution that puts the unit of a node after the units of its children
RECURSIVE resolveEffectPostOrder(_, _)
resolveEffectPostOrder(effect, scope0) ==
    IF isEmpty(effect) THEN <<>>
    ELSE LET scope == scope0 \o effect.scope
             upTo[i \in 0..Len(effect.children)] ==
                 IF i = 0 THEN <<>>
                 ELSE upTo[i - 1] \o resolveEffectPostOrder(effect.children[i], scope)
         IN  upTo[Len(effect.children)]
             \o (IF effect.node.kind # "none"
                  THEN <<resolveEffectNode(effect.node, scope)>> ELSE <<>>)

RECURSIVE resolveEffect(_, _)
RECURSIVE resolveChildren(_, _)
resolveChildren(children, scope) ==
    IF children = <<>> THEN <<>>
    ELSE resolveEffect(Head(children), scope) \o resolveChildren(Tail(children), scope)

resolveEffect(effect, scope0) ==
    IF isEmpty(effect) THEN <<>>
    ELSE LET scope == scope0 \o effect.scope
         IN  (IF effect.node.kind # "none"
              THEN <<resolveEffectNode(effect.node, scope)>> ELSE <<>>)
             \o resolveChildren(effect.children, scope)

LongRunningIn(units) ==
    Cardinality({i \in 1..Len(units) : units[i].kind = "long-running"})

ActionsIn(units) ==
    Cardinality({i \in 1..Len(units) : units[i].kind = "action"})

\* `new EffectContext()` of resolveEffectNode: the k-th long-running unit of the
\* list gets the k-th context after the n already allocated
Allocate(units, n) ==
    [i \in 1..Len(units) |->
        IF units[i].kind = "long-running"
        THEN [units[i] EXCEPT !.context = n + LongRunningIn(SubSeq(units, 1, i))]
        ELSE units[i]]

\* The context of a long-running unit with the position of the task that runs it.
\*   phase: "resolved" (start not called yet), "running" (waiting for the
\*          producer), "yielded" (start passed its isCancelled check and
\*          yielded; the task has not called send yet), "done"
\*   label: who produced it
\*   late:  the elements start has pulled from the producer with the flag set
NewContext(unit) ==
    [isCancelled |-> FALSE, cleanups |-> 0, hook |-> unit.node.hook,
     id |-> unit.id, scope |-> unit.scope, kind |-> unit.node.kind,
     map |-> unit.node.map, label |-> unit.node.label,
     phase |-> "resolved", value |-> Null, late |-> 0]

RECURSIVE NewContexts(_)
NewContexts(units) ==
    IF units = <<>> THEN <<>>
    ELSE (IF Head(units).kind = "long-running" THEN <<NewContext(Head(units))>> ELSE <<>>)
         \o NewContexts(Tail(units))

----------------------------------------------------------------------------
(* EffectContextTree: src/src/index.ts 606-667.  children is the Map as the *)
(* sequence of its entries in insertion order; an absent Map and an empty   *)
(* one are both <<>> (every method treats them alike).                      *)

EmptyTree == [contexts |-> <<>>, children |-> <<>>]

ChildIndex(t, head) ==
    IF \E i \in 1..Len(t.children) : t.children[i].key = head
    THEN CHOOSE i \in 1..Len(t.children) : t.children[i].key = head
    ELSE 0

RemoveAt(s, i) == SubSeq(s, 1, i - 1) \o SubSeq(s, i + 1, Len(s))

RECURSIVE TreeAdd(_, _, _)
TreeAdd(t, context, scope) ==
    IF scope = <<>> THEN [t EXCEPT !.contexts = Append(@, context)]
    ELSE LET head == Head(scope)
             i == ChildIndex(t, head)
         IN  IF i = 0
             THEN [t EXCEPT !.children =
                     Append(@, [key |-> head,
                                tree |-> TreeAdd(EmptyTree, context, Tail(scope))])]
             ELSE [t EXCEPT !.children[i].tree = TreeAdd(@, context, Tail(scope))]

\* add: a context already cancelled is not registered
add(t, context, scope, cancelled) ==
    IF cancelled THEN t ELSE TreeAdd(t, context, scope)

\* the contexts cancelSelf calls cancel() on, in call order
RECURSIVE cancelSelfOrder(_)
RECURSIVE cancelChildrenOrder(_)
cancelChildrenOrder(children) ==
    IF children = <<>> THEN <<>>
    ELSE cancelSelfOrder(Head(children).tree) \o cancelChildrenOrder(Tail(children))

cancelSelfOrder(t) == t.contexts \o cancelChildrenOrder(t.children)

\* a cancel(scope) that leaves the contexts of the subtrees below scope alone
RECURSIVE cancelOrderShallow(_, _)
cancelOrderShallow(t, scope) ==
    IF scope = <<>> THEN t.contexts
    ELSE LET i == ChildIndex(t, Head(scope))
         IN  IF i = 0 THEN <<>> ELSE cancelOrderShallow(t.children[i].tree, Tail(scope))

\* the contexts cancel(scope) calls cancel() on, in call order
RECURSIVE cancelOrder(_, _)
cancelOrder(t, scope) ==
    IF scope = <<>> THEN cancelSelfOrder(t)
    ELSE LET i == ChildIndex(t, Head(scope))
         IN  IF i = 0 THEN <<>> ELSE cancelOrder(t.children[i].tree, Tail(scope))

\* cancel without `this.children.delete(head)`
RECURSIVE cancelKeepsChild(_, _)
cancelKeepsChild(t, scope) ==
    IF scope = <<>> THEN EmptyTree
    ELSE LET i == ChildIndex(t, Head(scope))
         IN  IF i = 0 THEN t
             ELSE IF Tail(scope) = <<>> THEN t
             ELSE [t EXCEPT !.children[i].tree = cancelKeepsChild(@, Tail(scope))]

\* the tree cancel(scope) leaves
RECURSIVE cancel(_, _)
cancel(t, scope) ==
    IF scope = <<>> THEN EmptyTree
    ELSE LET head == Head(scope)
             rest == Tail(scope)
             i == ChildIndex(t, head)
         IN  IF i = 0 THEN t
             ELSE IF rest = <<>> THEN [t EXCEPT !.children = RemoveAt(@, i)]
             ELSE [t EXCEPT !.children[i].tree = cancel(@, rest)]

\* the registrations of a tree: <<path, context>> pairs
RECURSIVE Registered(_, _)
Registered(t, path) ==
    {<<path, t.contexts[j]>> : j \in 1..Len(t.contexts)}
    \cup UNION {Registered(t.children[i].tree, Append(path, t.children[i].key)) :
                    i \in 1..Len(t.children)}

IsPrefix(p, q) == Len(p) <= Len(q) /\ SubSeq(q, 1, Len(p)) = p

----------------------------------------------------------------------------
(* EffectContext.cancel: src/src/index.ts 398-407.  The flag and the number *)
(* of cleanup hook calls after cancel() on context c.                       *)

\* a cancel() without the early return for a context already cancelled
cancelContextAgain(ctxs, c) ==
    [ctxs EXCEPT ![c].isCancelled = TRUE,
                 ![c].cleanups = IF ctxs[c].hook # "none" THEN @ + 1 ELSE @]

cancelContext(ctxs, c) ==
    IF ctxs[c].isCancelled THEN ctxs
    ELSE [ctxs EXCEPT ![c].isCancelled = TRUE,
                      ![c].cleanups = IF ctxs[c].hook # "none" THEN @ + 1 ELSE @]

----------------------------------------------------------------------------
(* Reducers: src/src/Reducer.ts.  run(reducer, state, action) is the set of *)
(* [state, effect] pairs the reducer may return.  The stores modelled are   *)
(* built with one of these reducers:                                        *)
(*   "poller"  leaves the state alone and starts and cancels long-running    *)
(*             effects, some under the id "poll";                           *)
(*   "chatty"  replaces the state and starts effects that install a cleanup *)
(*             hook, and cancels their scope;                               *)
(*   "relay"   replaces the state and emits follow-up actions;              *)
(*   "ifLet", "ifCaseLet"  mount a child reducer in a parent reducer;       *)
(*   "counter" adds 1 to count per increment action.                        *)

PollerEffects ==
    {EffectNone, cancelScope(<<"a">>), cancelId("poll"),
     cancellationScope(AsyncEffect("generator", "poll", "none", "root"), "a"),
     cancellationScope(AsyncEffect("promise", "poll", "none", "root"), "a"),
     cancellationScope(AsyncEffect("generator", NoId, "none", "root"), "b")}

RelayEffects ==
    {EffectNone, ActionEffect(Str("x")), ActionEffect(Str("")),
     merge(<<ActionEffect(Str("y")), ActionEffect(Str("x"))>>)}

\* effects of several units: a long-running effect in scope a, or in scope a/b,
\* before or after a cancel-scope of a
SequencerEffects ==
    LET inA == cancellationScope(AsyncEffect("generator", NoId, "none", "root"), "a")
        inAB == cancellationScope(
                    cancellationScope(AsyncEffect("promise", NoId, "none", "root"), "b"),
                    "a")
    IN  {inA, inAB,
         merge(<<inA, cancelScope(<<"a">>)>>),
         merge(<<cancelScope(<<"a">>), inAB>>)}

ChattyEffects ==
    {EffectNone, cancelScope(<<"a">>),
     cancellationScope(AsyncEffect("generator", NoId, "send", "root"), "a")}

\* the identity function handed to ifLet and ifCaseLet
childId(childState) == childState.id

ChildIds == {"x", "y"}
NoChild == [id |-> NoId, n |-> 0]

\* whether the state accessor of the operator is a KeyPath (total) and not a
\* CasePath (partial)
isKeyPath(r) == r \in {"ifLet", "scopeKey"}

\* keyPath("child").get, or casePath("child").extract, of the parent state
get(r, s) ==
    IF isKeyPath(r) THEN s.child
    ELSE IF s.kind = "child" THEN s.child ELSE NoChild

\* an accessor that does not write the child state into the parent
setKeepsParent(r, s, childState) == s

\* keyPath("child").set, or casePath("child").embed
set(r, s, childState) ==
    IF isKeyPath(r) THEN [s EXCEPT !.child = childState]
    ELSE [kind |-> "child", child |-> childState]

\* an extraction that takes every tagged action for a child action
extractAny(action) ==
    IF action.t = "obj" THEN Str(action.value) ELSE Null

\* casePath("child").extract of an action
extract(action) ==
    IF action.t = "obj" /\ action.kind = "child" THEN Str(action.value) ELSE Null

\* what the child reducer may return: it keeps its state, changes its data or
\* changes its identity, and may start an effect labelled with its identity
ChildRun(childState, childAction) ==
    UNION {[state : {c}, effect : {EffectNone, AsyncEffect("generator", NoId, "none", childId(c))}]
           : c \in {childState, [childState EXCEPT !.n = 1 - @]}
                   \cup {[childState EXCEPT !.id = i] : i \in ChildIds}}

\* what the parent reducer may return: it keeps the state, mounts a child or
\* removes the child, and may start an effect of its own in the scope "x"
ParentRun(r, s, action) ==
    [state : {s} \cup {set(r, s, [id |-> i, n |-> 0]) : i \in ChildIds}
                 \cup {IF isKeyPath(r) THEN [s EXCEPT !.child = NoChild]
                        ELSE [kind |-> "idle", child |-> NoChild]},
     effect : {EffectNone,
               cancellationScope(AsyncEffect("generator", NoId, "none", "parent"), "x")}]

getChildId(r, s) ==
    IF get(r, s) # NoChild THEN childId(get(r, s)) ELSE NoId

\* a child step that runs the child reducer whether or not the slot holds a
\* child
reduceChildUnchecked(r, s, action) ==
    LET childAction == extract(action)
    IN  IF Falsy(childAction) THEN {[state |-> s, effect |-> EffectNone]}
        ELSE {[state |-> set(r, s, o.state), effect |-> map(o.effect, "embed")]
              : o \in ChildRun(get(r, s), childAction)}

reduceChild(r, s, action) ==
    LET childAction == extract(action)
    IN  IF Falsy(childAction) THEN {[state |-> s, effect |-> EffectNone]}
        ELSE LET childState == get(r, s)
             IN  IF childState = NoChild THEN {[state |-> s, effect |-> EffectNone]}
                 ELSE {[state |-> set(r, s, o.state), effect |-> map(o.effect, "embed")]
                       : o \in ChildRun(childState, childAction)}

\* a teardown that cancels the scope of the new identity
TeardownNew(oldChildId, newChildId) ==
    IF oldChildId # newChildId /\ oldChildId # NoId
    THEN <<cancelScope(<<newChildId>>)>> ELSE <<>>

\* `if (oldChildId != newChildId && oldChildId !== null)
\*      effects.push(Effect.cancelScope([oldChildId]))`
Teardown(oldChildId, newChildId) ==
    IF oldChildId # newChildId /\ oldChildId # NoId
    THEN <<cancelScope(<<oldChildId>>)>> ELSE <<>>

\* a _reduce that merges the parent's effect before the child's
reduceParentFirst(r, s, action) ==
    UNION {{[state |-> q.state,
             effect |-> merge(<<q.effect, p.effect>>
                              \o Teardown(getChildId(r, p.state), getChildId(r, q.state))),
             oldChildId |-> getChildId(r, p.state)]
            : q \in ParentRun(r, p.state, action)}
           : p \in reduceChild(r, s, action)}

\* _reduce of _IfLetReducer and _IfCaseLetReducer; oldChildId is kept with the
\* pair returned
reduce(r, s, action) ==
    UNION {{[state |-> q.state,
             effect |-> merge(<<p.effect, q.effect>>
                              \o Teardown(getChildId(r, p.state), getChildId(r, q.state))),
             oldChildId |-> getChildId(r, p.state)]
            : q \in ParentRun(r, p.state, action)}
           : p \in reduceChild(r, s, action)}

\* the reducer of the counter store: `if (action.kind === "increment") state.count += 1`
CounterReduce(s, action) ==
    IF action.kind = "increment" THEN [s EXCEPT !.count = @ + 1] ELSE s

\* Scope._reduce: the KeyPath branch runs the child on get(state) whenever the
\* action holds a child action; the CasePath branch also needs the state to be
\* in the child's case; both put the child's new state into the state returned
Scope(r, s, action) ==
    IF isKeyPath(r)
    THEN LET childAction == extract(action)
         IN  IF Falsy(childAction) THEN {[state |-> s, effect |-> EffectNone]}
             ELSE {[state |-> set(r, s, o.state), effect |-> map(o.effect, "embed")]
                   : o \in ChildRun(get(r, s), childAction)}
    ELSE LET childState == get(r, s)
             childAction == extract(action)
         IN  IF childState = NoChild \/ Falsy(childAction)
             THEN {[state |-> s, effect |-> EffectNone]}
             ELSE {[state |-> set(r, s, o.state), effect |-> map(o.effect, "embed")]
                   : o \in ChildRun(childState, childAction)}

\* what a reducer of the count may return: it keeps the state or puts the count
\* to 2 * count + 1, and may return actions and a cancel-scope
StepperEffects ==
    {EffectNone, ActionEffect(Str("x")),
     merge(<<cancelScope(<<"a">>), ActionEffect(Str("y"))>>)}

StepperRun(s, action) ==
    [state : {s, [s EXCEPT !.count = 2 * @ + 1]}, effect : StepperEffects]

\* CombineReducers.reducers of the combined reducers
reducers(r) ==
    IF r = "counter2" THEN <<"counter", "counter">>
    ELSE <<"stepper", "counter", "stepper">>

\* the states of the store a ScopedStore projects: the child is the projection
ProjectedStates == [child : {Null, Str("c1"), Str("c2")}, n : {0, 1}]

RECURSIVE run(_, _, _)

\* a loop that hands the state it was called with to every reducer
RECURSIVE CombineLoopSameState(_, _, _, _)
CombineLoopSameState(rs, s, effects, action) ==
    IF rs = <<>> THEN {[state |-> s, effect |-> merge(effects)]}
    ELSE UNION {{[state |-> o.state, effect |-> q.effect]
                 : q \in CombineLoopSameState(Tail(rs), s,
                                              Append(effects, o.effect), action)}
                : o \in run(Head(rs), s, action)}

\* the loop of CombineReducers._reduce over the reducers left, with the state and
\* the effects collected so far
RECURSIVE CombineLoop(_, _, _, _)
CombineLoop(rs, s, effects, action) ==
    IF rs = <<>> THEN {[state |-> s, effect |-> merge(effects)]}
    ELSE UNION {CombineLoop(Tail(rs), o.state, Append(effects, o.effect), action)
                : o \in run(Head(rs), s, action)}

CombineReducers(r, s, action) == CombineLoop(reducers(r), s, <<>>, action)

run(r, s, action) ==
    IF r \in {"scopeKey", "scopeCase"}
    THEN {[state |-> o.state, effect |-> o.effect, oldChildId |-> NoId]
          : o \in Scope(r, s, action)}
    ELSE IF r \in {"counter2", "combined"}
    THEN {[state |-> o.state, effect |-> o.effect, oldChildId |-> NoId]
          : o \in CombineReducers(r, s, action)}
    ELSE IF r = "stepper"
    THEN {[state |-> o.state, effect |-> o.effect, oldChildId |-> NoId]
          : o \in StepperRun(s, action)}
    ELSE IF r = "sequencer"
    THEN [state : {s}, effect : SequencerEffects, oldChildId : {NoId}]
    ELSE IF r = "projected"
    THEN [state : ProjectedStates, effect : {EffectNone}, oldChildId : {NoId}]
    ELSE IF r = "poller" THEN [state : {s}, effect : PollerEffects, oldChildId : {NoId}]
    ELSE IF r = "chatty" THEN [state : States, effect : ChattyEffects, oldChildId : {NoId}]
    ELSE IF r = "relay" THEN [state : States, effect : RelayEffects, oldChildId : {NoId}]
    ELSE IF r \in {"ifLet", "ifCaseLet"} THEN reduce(r, s, action)
    ELSE {[state |-> CounterReduce(s, action), effect |-> EffectNone, oldChildId |-> NoId]}

\* the state the store is constructed with
InitialState(r) ==
    IF r = "ifLet" THEN [kind |-> "root", child |-> [id |-> "x", n |-> 0]]
    ELSE IF r = "ifCaseLet" THEN [kind |-> "child", child |-> [id |-> "x", n |-> 0]]
    ELSE IF r = "counter" THEN [count |-> 0]
    ELSE IF r = "projected" THEN [child |-> Null, n |-> 0]
    ELSE "s0"

\* the actions dispatched from outside the store
SendActions(r) ==
    IF r \in {"poller", "sequencer", "projected"} THEN {Str("x")}
    ELSE IF r = "chatty" THEN {Str("x")}
    ELSE IF r = "relay" THEN {Str("x"), Str("")}
    ELSE IF r = "counter" THEN {Obj("increment", ""), Obj("noop", "")}
    ELSE {Obj("child", "x"), Obj("parent", "x")}

\* the number of long-running effects the model lets the reducer start
EffectBound(r) ==
    IF r = "chatty" THEN MaxHooked
    ELSE IF r \in {"ifLet", "ifCaseLet"} THEN MaxMounted
    ELSE MaxEffects

----------------------------------------------------------------------------
(* RootStore: src/src/index.ts 272-347 *)

\* a call of send(action): oldState and pendingActions are its locals; units are
\* the resolved effects processAction has still to process; work the contexts a
\* cancellation under way has still to cancel; toNotify the callbacks the final
\* loop has still to call.  History: via (the caller), enq (the actions
\* enqueued), proc (the actions run through the reducer), base (the contexts
\* allocated before the action being processed), final (this.state when the loop
\* ended), notified (the callbacks called, with the state passed) and reentered
\* (a callback of this call has called send).
NewFrame(via, action) ==
    [via |-> via, oldState |-> state, pendingActions |-> <<action>>,
     units |-> <<>>, cancelling |-> FALSE, work |-> <<>>,
     phase |-> "drain", toNotify |-> <<>>,
     enq |-> <<action>>, proc |-> <<>>, base |-> 0, final |-> state,
     notified |-> <<>>, reentered |-> FALSE, oldChildId |-> NoId]

Top == stack[Len(stack)]
SetTop(f) == [stack EXCEPT ![Len(stack)] = f]
Pop == SubSeq(stack, 1, Len(stack) - 1)

\* a cancellation is under way somewhere on the stack
InCancel == \E i \in 1..Len(stack) : stack[i].cancelling

\* a task holds an action it has still to send: its job is in the microtask queue
DeliveryPending == \E c \in 1..Len(contexts) : contexts[c].phase = "yielded"

\* units that touch the EffectContextTree
TouchesTree(units) ==
    \E i \in 1..Len(units) : units[i].kind \in {"cancel-scope", "long-running"}

InitFields(r) ==
    /\ state = InitialState(r)
    /\ reducer = r
    /\ log = [dispatched |-> 0, notified |-> [i \in SubIds |-> 0],
              since |-> [i \in SubIds |-> 0]]
    /\ namedEffects = [i \in {} |-> 0]
    /\ effectTree = EmptyTree
    /\ callbacks = <<>>
    /\ contexts = <<>>
    /\ stack = <<>>

InitStore(r) == InitFields(r) /\ bench = EffectNone

\* send(action) called from outside the store, in a job of its own
Send(action) ==
    /\ stack = <<>>
    /\ ~DeliveryPending
    /\ reducer = "counter" /\ action.kind = "increment" => log.dispatched < MaxCount
    /\ stack' = <<NewFrame("user", action)>>
    /\ log' = IF reducer = "counter" /\ action.kind = "increment"
              THEN [log EXCEPT !.dispatched = @ + 1] ELSE log
    /\ UNCHANGED <<bench, state, reducer, namedEffects, effectTree, callbacks, contexts>>

\* a loop that goes on before the resolved effects of the action are processed
AtLoopTopEarly ==
    /\ stack # <<>>
    /\ Top.phase = "drain"
    /\ ~Top.cancelling

\* the loop of send is at its top: nothing of the action before is left
AtLoopTop ==
    /\ stack # <<>>
    /\ Top.phase = "drain"
    /\ Top.units = <<>>
    /\ ~Top.cancelling

\* a loop that breaks before it has processed an action
LoopBreaksAtOnce(f) == TRUE

\* `const next = pendingActions.shift(); if (!next) break`
LoopBreaks(f) ==
    IF f.pendingActions = <<>> THEN TRUE ELSE Falsy(Head(f.pendingActions))

\* send, lines 290-294 and 305-309: shift the next action, run the reducer, store
\* the state, resolve the effect.  While a cancellation is under way (the caller
\* is a cleanup hook) the reducer leaves the EffectContextTree alone.
ProcessAction ==
    /\ AtLoopTop
    /\ ~LoopBreaks(Top)
    /\ LET next == Head(Top.pendingActions)
       IN  \E o \in run(reducer, state, next) :
             LET units == Allocate(resolveEffect(o.effect, <<>>), Len(contexts))
             IN  /\ Len(contexts) + LongRunningIn(units) <= EffectBound(reducer)
                 /\ Len(Top.enq) + ActionsIn(units) <= MaxEnq
                 /\ InCancel => ~TouchesTree(units)
                 /\ state' = o.state
                 /\ contexts' = contexts \o NewContexts(units)
                 /\ stack' = SetTop([Top EXCEPT !.pendingActions = Tail(@),
                                                !.proc = Append(@, next),
                                                !.base = Len(contexts),
                                                !.oldChildId = o.oldChildId,
                                                !.units = units])
    /\ UNCHANGED <<bench, log, reducer, namedEffects, effectTree, callbacks>>

\* a send that calls the callbacks whatever the state
StateChangedAlways(f) == TRUE

\* send compares the state object with the one it started with
StateChanged(f) == f.oldState # state

\* send, lines 291-302: the loop breaks; send returns when the state object is
\* the one it started with (or no callback is registered), and otherwise goes
\* on to call the callbacks
LoopEnd ==
    /\ AtLoopTop
    /\ LoopBreaks(Top)
    /\ LET f == [Top EXCEPT !.pendingActions = IF @ = <<>> THEN @ ELSE Tail(@),
                            !.final = state]
       IN  IF StateChanged(f) /\ callbacks # <<>>
           THEN stack' = SetTop([f EXCEPT !.phase = "notify", !.toNotify = callbacks])
           ELSE stack' = Pop
    /\ UNCHANGED <<bench, log, state, reducer, namedEffects, effectTree, callbacks, contexts>>

\* the contexts processResolvedEffect calls cancel() on before anything else
ToCancel(x) ==
    IF x.kind = "cancel-scope" THEN cancelOrder(effectTree, x.scope)
    ELSE IF x.kind \in {"cancel-id", "long-running"}
            /\ x.id # NoId /\ x.id \in DOMAIN namedEffects
    THEN <<namedEffects[x.id]>>
    ELSE <<>>

\* what processResolvedEffect does with x once those cancel() calls returned
Completed(x, f) ==
    /\ effectTree' =
          IF x.kind = "cancel-scope" THEN cancel(effectTree, x.scope)
          ELSE IF x.kind = "long-running"
          THEN add(effectTree, x.context, x.scope, contexts[x.context].isCancelled)
          ELSE effectTree
    /\ contexts' =
          IF x.kind = "long-running"
          THEN [contexts EXCEPT ![x.context].phase = "running"]
          ELSE contexts
    /\ stack' = SetTop([f EXCEPT !.units = Tail(@), !.cancelling = FALSE,
                                 !.pendingActions =
                                    IF x.kind = "action" THEN Append(@, x.value) ELSE @,
                                 !.enq =
                                    IF x.kind = "action" THEN Append(@, x.value) ELSE @])

\* processResolvedEffect(x), lines 314-338: in one step when it has no context to
\* cancel, and otherwise up to its first cancel() call
ProcessResolvedEffect ==
    /\ stack # <<>>
    /\ Top.units # <<>>
    /\ ~Top.cancelling
    /\ LET x == Head(Top.units)
       IN  IF ToCancel(x) = <<>>
           THEN Completed(x, Top)
           ELSE /\ stack' = SetTop([Top EXCEPT !.cancelling = TRUE,
                                               !.work = ToCancel(x)])
                /\ UNCHANGED <<bench, log, effectTree, contexts>>
    /\ UNCHANGED <<bench, log, state, reducer, namedEffects, callbacks>>

\* one context.cancel() of the cancellation under way
CancelStep ==
    /\ stack # <<>>
    /\ Top.cancelling
    /\ Top.work # <<>>
    /\ contexts' = cancelContext(contexts, Head(Top.work))
    /\ stack' = SetTop([Top EXCEPT !.work = Tail(@)])
    /\ UNCHANGED <<bench, log, state, reducer, namedEffects, effectTree, callbacks>>

\* the same, with a cleanup hook that calls send
CancelStepSend ==
    /\ stack # <<>>
    /\ Top.cancelling
    /\ Top.work # <<>>
    /\ ~contexts[Head(Top.work)].isCancelled
    /\ contexts[Head(Top.work)].hook = "send"
    /\ Len(stack) < MaxDepth
    /\ contexts' = cancelContext(contexts, Head(Top.work))
    /\ \E a \in HookActions :
          stack' = Append(SetTop([Top EXCEPT !.work = Tail(@)]), NewFrame("hook", a))
    /\ UNCHANGED <<bench, log, state, reducer, namedEffects, effectTree, callbacks>>

\* the cancel() calls of processResolvedEffect(x) have returned: the rest of it
CancelDone ==
    /\ stack # <<>>
    /\ Top.cancelling
    /\ Top.work = <<>>
    /\ Completed(Head(Top.units), Top)
    /\ UNCHANGED <<bench, log, state, reducer, namedEffects, callbacks>>

\* the frame after `callback(this.state)` for the next callback
Called(f) ==
    [f EXCEPT !.toNotify = Tail(@),
              !.notified = Append(@, [id |-> Head(f.toNotify), state |-> state,
                                      after |-> f.reentered])]

\* send, lines 300-302: the next callback is called with this.state
Notify ==
    /\ stack # <<>>
    /\ Top.phase = "notify"
    /\ Top.toNotify # <<>>
    /\ stack' = SetTop(Called(Top))
    /\ log' = IF reducer = "counter"
              THEN [log EXCEPT !.notified[Head(Top.toNotify)] = @ + 1] ELSE log
    /\ UNCHANGED <<bench, state, reducer, namedEffects, effectTree, callbacks, contexts>>

\* the same, with a callback that calls send
NotifySend ==
    /\ stack # <<>>
    /\ Top.phase = "notify"
    /\ Top.toNotify # <<>>
    /\ Len(stack) < MaxDepth
    /\ \E a \in CallbackActions :
          stack' = Append(SetTop([Called(Top) EXCEPT !.reentered = TRUE]),
                          NewFrame("subscriber", a))
    /\ UNCHANGED <<bench, log, state, reducer, namedEffects, effectTree, callbacks, contexts>>

\* send returns after its last callback
Return ==
    /\ stack # <<>>
    /\ Top.phase = "notify"
    /\ Top.toNotify = <<>>
    /\ stack' = Pop
    /\ UNCHANGED <<bench, log, state, reducer, namedEffects, effectTree, callbacks, contexts>>

Subscribe(id) ==
    /\ stack = <<>>
    /\ ~DeliveryPending
    /\ \A i \in 1..Len(callbacks) : callbacks[i] # id
    /\ callbacks' = Append(callbacks, id)
    /\ log' = IF reducer = "counter"
              THEN [log EXCEPT !.notified[id] = 0, !.since[id] = log.dispatched]
              ELSE log
    /\ UNCHANGED <<bench, state, reducer, namedEffects, effectTree, contexts, stack>>

Unsubscribe(id) ==
    /\ stack = <<>>
    /\ ~DeliveryPending
    /\ \E i \in 1..Len(callbacks) :
          /\ callbacks[i] = id
          /\ callbacks' = RemoveAt(callbacks, i)
    /\ UNCHANGED <<bench, log, state, reducer, namedEffects, effectTree, contexts, stack>>

----------------------------------------------------------------------------
(* The task of a long-running unit: src/src/index.ts 331-336 around the     *)
(* generator start of resolveEffectNode, 564-577, and the mapped producers  *)
(* of mapEffectNode, 439-458.  Its steps are jobs: they run while no send   *)
(* is active.                                                               *)

\* the producer of context c emits v: the mapped generator returns when it sees
\* the flag set; start yields the element when it sees the flag unset, and
\* otherwise ends (promise) or waits for the next element (generator)
\* a start that yields the result of a promise without looking at the flag
ProducedUnchecked(ctx, v) ==
    IF ctx.kind = "promise" \/ ~ctx.isCancelled
    THEN [ctx EXCEPT !.phase = "yielded", !.value = ApplyMap(ctx.map, v)]
    ELSE [ctx EXCEPT !.phase = "done"]

Produced(ctx, v) ==
    IF ctx.kind = "generator" /\ ctx.map # <<>> /\ ctx.isCancelled
    THEN [ctx EXCEPT !.phase = "done", !.late = @ + 1]
    ELSE IF ~ctx.isCancelled
    THEN [ctx EXCEPT !.phase = "yielded", !.value = ApplyMap(ctx.map, v)]
    ELSE IF ctx.kind = "promise" THEN [ctx EXCEPT !.phase = "done"]
    ELSE [ctx EXCEPT !.late = @ + 1]

Produce(c) ==
    /\ stack = <<>>
    /\ contexts[c].phase = "running"
    /\ contexts[c].late < MaxLate
    /\ \E v \in EffectValues : contexts' = [contexts EXCEPT ![c] = Produced(@, v)]
    /\ UNCHANGED <<bench, log, state, reducer, namedEffects, effectTree, callbacks, stack>>

\* the generator of context c is exhausted
Exhaust(c) ==
    /\ stack = <<>>
    /\ contexts[c].phase = "running"
    /\ contexts[c].kind = "generator"
    /\ contexts' = [contexts EXCEPT ![c].phase = "done"]
    /\ UNCHANGED <<bench, log, state, reducer, namedEffects, effectTree, callbacks, stack>>

\* the task may call send: the element has reached its for-await loop
CanDeliver(c) ==
    /\ stack = <<>>
    /\ contexts[c].phase = "yielded"

\* `this.send(action)` of the task
Deliver(c) ==
    /\ CanDeliver(c)
    /\ stack' = Append(stack, NewFrame("effect", contexts[c].value))
    /\ contexts' = [contexts EXCEPT
                      ![c].phase = IF contexts[c].kind = "promise" THEN "done"
                                   ELSE "running"]
    /\ UNCHANGED <<bench, log, state, reducer, namedEffects, effectTree, callbacks>>

----------------------------------------------------------------------------
(* A store built with the poller reducer *)

Init == InitStore("poller")

Next ==
    \/ \E a \in SendActions(reducer) : Send(a)
    \/ ProcessAction
    \/ LoopEnd
    \/ ProcessResolvedEffect
    \/ CancelStep
    \/ CancelDone
    \/ \E c \in 1..Len(contexts) : Produce(c)
    \/ \E c \in 1..Len(contexts) : Exhaust(c)
    \/ \E c \in 1..Len(contexts) : Deliver(c)

Spec == Init /\ [][Next]_vars

(* A store built with the chatty reducer, with subscribers *)

InitChatty == InitStore("chatty")

NextChatty ==
    \/ \E a \in SendActions(reducer) : Send(a)
    \/ ProcessAction
    \/ LoopEnd
    \/ ProcessResolvedEffect
    \/ CancelStep
    \/ CancelStepSend
    \/ CancelDone
    \/ Notify
    \/ NotifySend
    \/ Return
    \/ \E id \in SubIds : Subscribe(id)
    \/ \E id \in SubIds : Unsubscribe(id)
    \/ \E c \in 1..Len(contexts) : Produce(c)
    \/ \E c \in 1..Len(contexts) : Exhaust(c)
    \/ \E c \in 1..Len(contexts) : Deliver(c)

SpecChatty == InitChatty /\ [][NextChatty]_vars

----------------------------------------------------------------------------
(* A store built with the relay reducer *)

InitRelay == InitStore("relay")

NextRelay ==
    \/ \E a \in SendActions(reducer) : Send(a)
    \/ ProcessAction
    \/ LoopEnd
    \/ ProcessResolvedEffect
    \/ Notify
    \/ NotifySend
    \/ Return
    \/ \E i \in SubIds : Subscribe(i)
    \/ \E i \in SubIds : Unsubscribe(i)

SpecRelay == InitRelay /\ [][NextRelay]_vars

----------------------------------------------------------------------------
(* Claims about the store with the poller reducer (Spec) *)

\* the task of context c has been started and has not ended
Running(c) == contexts[c].phase \in {"running", "yielded"}

\* this step starts the task of context c (processResolvedEffect, lines 330-336)
Launches(c) == contexts[c].phase = "resolved" /\ contexts'[c].phase = "running"

\* C1: when the store starts a long-running effect carrying id i, every effect
\* that an earlier action started under id i and that still runs has its context
\* cancelled by then: the new effect supersedes the old one.
C1_Supersedes ==
    [][\A c2 \in 1..Len(contexts) :
          Launches(c2) /\ contexts[c2].id # NoId
          => \A c1 \in 1..Top.base :
                Running(c1) /\ contexts[c1].id = contexts[c2].id
                => contexts'[c1].isCancelled]_vars

\* the store is about to process a cancel-id unit for id i
AtCancelId(i) ==
    /\ stack # <<>>
    /\ Top.units # <<>>
    /\ ~Top.cancelling
    /\ Head(Top.units).kind = "cancel-id"
    /\ Head(Top.units).id = i

\* C2: processing a cancel-id(i) unit cancels the context of every effect that
\* was started under id i and still runs.
C2_CancelIdCancels ==
    [][\A c \in 1..Len(contexts) :
          AtCancelId(contexts[c].id) /\ Running(c)
          => contexts'[c].isCancelled]_vars

\* this step is the `this.send(action)` of the task of context c
Delivers(c) == contexts[c].phase = "yielded" /\ contexts'[c].phase # "yielded"

\* C6: the task of a cancelled context passes no action to send.
C6_NoSendAfterCancel ==
    [][\A c \in 1..Len(contexts) : Delivers(c) => ~contexts[c].isCancelled]_vars

\* C20: once the producing sequence of a long-running effect has ended without
\* cancellation, its context is registered nowhere in the EffectContextTree and
\* no later step of the store (a cancel-scope over its path) sets its flag.
C20_DiscardedWhenExhausted ==
    [][\A c \in 1..Len(contexts) :
          (contexts[c].phase = "done" /\ ~contexts[c].isCancelled) =>
             /\ \A q \in {contexts[c].scope} : <<q, c>> \notin Registered(effectTree, <<>>)
             /\ ~contexts'[c].isCancelled]_vars

\* C21: the sequence of a multi-shot effect ends the first time start pulls an
\* element and finds the flag set: it has pulled one element with the flag set
\* at most, and then its task has finished.
C21_StopsWhenCancelled ==
    \A c \in 1..Len(contexts) :
        (contexts[c].kind = "generator" /\ contexts[c].late > 0)
           => (contexts[c].phase = "done" /\ contexts[c].late = 1)

\* C22: the sequence of a single-shot effect has ended once its task has passed
\* one action to send and never yields again, and it ends without yielding
\* when the flag is set at the time the underlying computation finishes.
C22_SingleShot ==
    [][\A c \in 1..Len(contexts) :
          LET finishes == contexts[c].phase = "running" /\ contexts'[c].phase # "running"
          IN  contexts[c].kind = "promise" =>
                 /\ Delivers(c) => contexts'[c].phase = "done"
                 /\ contexts[c].phase = "done" => contexts'[c].phase = "done"
                 /\ (finishes /\ contexts[c].isCancelled) => contexts'[c].phase = "done"
                 /\ (finishes /\ ~contexts[c].isCancelled)
                       => contexts'[c].phase = "yielded"]_vars

\* one single-shot effect has delivered its action and another one, cancelled
\* before its computation finished, has ended without one
C22_Witness ==
    \E c1, c2 \in 1..Len(contexts) :
        /\ contexts[c1].kind = "promise"
        /\ contexts[c1].phase = "done"
        /\ contexts[c1].value # Null
        /\ contexts[c2].kind = "promise"
        /\ contexts[c2].phase = "done"
        /\ contexts[c2].isCancelled
        /\ contexts[c2].value = Null

----------------------------------------------------------------------------
(* Claims about the store with the chatty reducer (SpecChatty) *)

\* the call of send in frame i has left its loop and has nothing of it left
LoopOver(i) ==
    /\ stack[i].phase = "notify"
    /\ stack[i].units = <<>>
    /\ ~stack[i].cancelling

C8_DrainsAll ==
    AtLoopTop /\ LoopBreaks(Top) => Top.proc = Top.enq

\* the ids of the callbacks a frame has called and has still to call
CalledIds(f) == [j \in 1..Len(f.notified) |-> f.notified[j].id] \o f.toNotify

\* C9 as stated: a call of send calls no callback when the state object is the
\* one it started with, and otherwise calls every registered callback once, with
\* the state the loop ended with.
C9_NotifiesFinal ==
    \A i \in 1..Len(stack) :
        /\ stack[i].phase = "drain" => stack[i].notified = <<>>
        /\ stack[i].phase = "notify" =>
              /\ stack[i].final # stack[i].oldState
              /\ CalledIds(stack[i]) = callbacks
              /\ \A j \in 1..Len(stack[i].notified) :
                    stack[i].notified[j].state = stack[i].final

\* C9, amended: ... with this.state as it is when the callback is called: the
\* state the loop ended with, unless a callback called before it in the same
\* call has called send.
C9_NotifiesCurrent ==
    \A i \in 1..Len(stack) :
        /\ stack[i].phase = "drain" => stack[i].notified = <<>>
        /\ stack[i].phase = "notify" =>
              /\ stack[i].final # stack[i].oldState
              /\ CalledIds(stack[i]) = callbacks
              /\ \A j \in 1..Len(stack[i].notified) :
                    \/ stack[i].notified[j].state = stack[i].final
                    \/ stack[i].notified[j].after

C9_Witness ==
    /\ Len(stack) = 1
    /\ Top.phase = "notify"
    /\ Top.toNotify = <<>>
    /\ Len(Top.notified) = 2
    /\ Top.notified[2].after
    /\ Top.notified[2].state = Top.final

----------------------------------------------------------------------------
(* An EffectContextTree used on its own: contexts are added at any path and *)
(* any path is cancelled (SpecTree).                                        *)

TreePaths == {<<>>, <<"a">>, <<"b">>, <<"a", "a">>, <<"a", "b">>, <<"b", "a">>}

\* a fresh running context for the path
TreeContext(path) ==
    [NewContext([NoUnit EXCEPT !.kind = "long-running", !.scope = path,
                               !.node = [NoNode EXCEPT !.kind = "generator"]])
        EXCEPT !.phase = "running"]

RECURSIVE cancelAll(_, _)
cancelAll(ctxs, work) ==
    IF work = <<>> THEN ctxs
    ELSE cancelAll(cancelContext(ctxs, Head(work)), Tail(work))

InitTree == InitStore("none")

\* effectTree.add(new EffectContext(), path)
TreeAddOp(path) ==
    /\ Len(contexts) < MaxTreeContexts
    /\ contexts' = Append(contexts, TreeContext(path))
    /\ effectTree' = add(effectTree, Len(contexts) + 1, path, FALSE)
    /\ UNCHANGED <<bench, log, state, reducer, namedEffects, callbacks, stack>>

\* effectTree.cancel(path)
TreeCancelOp(path) ==
    /\ contexts' = cancelAll(contexts, cancelOrder(effectTree, path))
    /\ effectTree' = cancel(effectTree, path)
    /\ UNCHANGED <<bench, log, state, reducer, namedEffects, callbacks, stack>>

NextTree ==
    \/ \E path \in TreePaths : TreeAddOp(path)
    \/ \E path \in TreePaths : TreeCancelOp(path)

SpecTree == InitTree /\ [][NextTree]_vars

\* C5: cancel(p) cancels the contexts registered at a path that has p as a
\* prefix and removes them from the tree; every other registered context keeps
\* its flag and stays registered at its path.
C5_CancelExactlySubtree ==
    [][\A p \in TreePaths :
          TreeCancelOp(p) =>
             \A r \in Registered(effectTree, <<>>) :
                IF IsPrefix(p, r[1])
                THEN /\ contexts'[r[2]].isCancelled
                     /\ \A q \in TreePaths : <<q, r[2]>> \notin Registered(effectTree', <<>>)
                ELSE /\ contexts'[r[2]].isCancelled = contexts[r[2]].isCancelled
                     /\ r \in Registered(effectTree', <<>>)]_vars

\* a subtree was cancelled and a sibling subtree is still registered and running
C5_Witness ==
    \E c1, c2 \in 1..Len(contexts) :
        /\ contexts[c1].scope = <<"a", "b">>
        /\ contexts[c1].isCancelled
        /\ \A q \in TreePaths : <<q, c1>> \notin Registered(effectTree, <<>>)
        /\ contexts[c2].scope = <<"b">>
        /\ ~contexts[c2].isCancelled
        /\ <<<<"b">>, c2>> \in Registered(effectTree, <<>>)

----------------------------------------------------------------------------
(* EffectContexts that are cancelled through the tree and by cancel() called *)
(* on them directly (as cancel-id, id supersession or the producer holding   *)
(* the context do).  bench counts the cancel() calls each context received.  *)

MaxCancels == 2
MaxCancellable == 2

ContextPaths == {<<>>, <<"a">>, <<"a", "b">>}

InitContext == InitFields("none") /\ bench = <<>>

\* a context is created, with or without a cleanup hook, and registered
ContextAdd(path, hook) ==
    /\ Len(contexts) < MaxCancellable
    /\ contexts' = Append(contexts, [TreeContext(path) EXCEPT !.hook = hook])
    /\ effectTree' = add(effectTree, Len(contexts) + 1, path, FALSE)
    /\ bench' = Append(bench, 0)
    /\ UNCHANGED <<log, state, reducer, namedEffects, callbacks, stack>>

\* context.cancel()
ContextCancel(c) ==
    /\ bench[c] < MaxCancels
    /\ contexts' = cancelContext(contexts, c)
    /\ bench' = [bench EXCEPT ![c] = @ + 1]
    /\ UNCHANGED <<log, state, reducer, namedEffects, effectTree, callbacks, stack>>

\* effectTree.cancel(path), which calls cancel() on the contexts it holds there
ContextTreeCancel(path) ==
    /\ contexts' = cancelAll(contexts, cancelOrder(effectTree, path))
    /\ effectTree' = cancel(effectTree, path)
    /\ bench' = [c \in 1..Len(bench) |->
                   bench[c] + Cardinality({i \in 1..Len(cancelOrder(effectTree, path)) :
                                             cancelOrder(effectTree, path)[i] = c})]
    /\ UNCHANGED <<log, state, reducer, namedEffects, callbacks, stack>>

NextContext ==
    \/ \E path \in ContextPaths, hook \in {"none", "cleanup"} : ContextAdd(path, hook)
    \/ \E c \in 1..Len(contexts) : ContextCancel(c)
    \/ \E path \in ContextPaths : ContextTreeCancel(path)

SpecContext == InitContext /\ [][NextContext]_vars

\* C19: a cancelled context stays cancelled, its cleanup hook is not invoked
\* again by any further cancel(), and no context has had its hook invoked more
\* than once, however often and by whichever way cancel() was called on it.
C19_CancelledOnce ==
    /\ [](\A c \in 1..Len(contexts) :
             /\ contexts[c].cleanups <= 1
             /\ contexts[c].cleanups = 1 => contexts[c].isCancelled)
    /\ [][\A c \in 1..Len(contexts) :
             contexts[c].isCancelled =>
                /\ contexts'[c].isCancelled
                /\ contexts'[c].cleanups = contexts[c].cleanups]_vars

\* a context with a cleanup hook has received cancel() from the tree and
\* directly, three times in all, and its hook has run once
C19_Witness ==
    \E c \in 1..Len(contexts) :
        /\ contexts[c].hook = "cleanup"
        /\ bench[c] = MaxCancels + 1
        /\ contexts[c].isCancelled
        /\ contexts[c].cleanups = 1

----------------------------------------------------------------------------
(* A store built with ifLet or ifCaseLet over a parent and a child reducer   *)

InitMount == \E r \in {"ifLet", "ifCaseLet"} : InitStore(r)

NextMount ==
    \/ \E a \in SendActions(reducer) : Send(a)
    \/ ProcessAction
    \/ LoopEnd
    \/ ProcessResolvedEffect
    \/ CancelStep
    \/ CancelDone
    \/ \E c \in 1..Len(contexts) : Produce(c)
    \/ \E c \in 1..Len(contexts) : Exhaust(c)
    \/ \E c \in 1..Len(contexts) : Deliver(c)

SpecMount == InitMount /\ [][NextMount]_vars

\* the step is processAction of the action at the head of the queue
ProcessesAction == AtLoopTop /\ ~LoopBreaks(Top) /\ Len(stack') = Len(stack)

\* the step ends processResolvedEffect of a cancel-scope unit for the path
EndsCancelScope(path) ==
    /\ stack # <<>>
    /\ Top.units # <<>>
    /\ Head(Top.units).kind = "cancel-scope"
    /\ Head(Top.units).scope = path
    /\ Len(stack') = Len(stack)
    /\ Top'.units = Tail(Top.units)

\* C3: when the store has processed the cancel-scope [x] that the mounting
\* operator appends because the child of identity x is replaced or removed,
\* every effect the child of identity x had started before and that is still
\* running has its context cancelled.
C3_ChildEffectsTornDown ==
    [][\A x \in ChildIds :
          EndsCancelScope(<<x>>) =>
             \A c \in 1..Len(contexts) :
                (c <= Top.base /\ contexts[c].label = x /\ Running(c))
                   => contexts'[c].isCancelled]_vars

CancelScopesIn(units) ==
    {units[i].scope : i \in {j \in 1..Len(units) : units[j].kind = "cancel-scope"}}

\* C4 as stated: an action that changes the identity of the slot from x to y,
\* by the child reducer or by the parent reducer, resolves to units with a
\* cancel-scope for [x] and none for [y].
C4_TeardownOnAnyChange ==
    [][ProcessesAction =>
         LET x == getChildId(reducer, state)
             y == getChildId(reducer, state')
         IN  (x # NoId /\ y # x) =>
                /\ <<x>> \in CancelScopesIn(Top'.units)
                /\ <<y>> \notin CancelScopesIn(Top'.units)]_vars

\* C4 amended: with x the identity of the slot after the child reducer has run
\* (oldChildId), an action whose parent reducer changes the identity from x to y
\* resolves to units whose last one is the cancel-scope for [x] and with none
\* for [y]; an action whose parent reducer leaves the identity alone, or finds
\* the slot empty, resolves to no cancel-scope for the path of an identity,
\* whatever the child reducer did to the identity.
C4_TeardownOnParentChange ==
    [][ProcessesAction =>
         LET x == Top'.oldChildId
             y == getChildId(reducer, state')
             units == Top'.units
         IN  IF x # NoId /\ y # x
             THEN /\ units # <<>>
                  /\ units[Len(units)].kind = "cancel-scope"
                  /\ units[Len(units)].scope = <<x>>
                  /\ <<y>> \notin CancelScopesIn(units)
                  /\ Cardinality({j \in 1..Len(units) : units[j].kind = "cancel-scope"}) = 1
             ELSE CancelScopesIn(units) = {}]_vars

\* the parent reducer has just replaced the child x by a child y
C4_Witness ==
    /\ stack # <<>>
    /\ Top.proc # <<>>
    /\ Top.pendingActions = <<>>
    /\ Top.oldChildId = "x"
    /\ getChildId(reducer, state) = "y"
    /\ Len(Top.units) = 2
    /\ Top.units[1].kind = "long-running"
    /\ Top.units[2].kind = "cancel-scope"
    /\ Top.units[2].scope = <<"x">>

\* the child reducer run on the child slot of the state, when the action holds
\* a child action and the slot a child: the state with the slot replaced, and
\* the child's resolved units
ChildFirst(r, s, action) ==
    IF action.t = "obj" /\ action.kind = "child" /\ action.value # ""
       /\ get(r, s) # NoChild
    THEN {[state |-> set(r, s, c.state),
           units |-> resolveEffect(map(c.effect, "embed"), <<>>)]
          : c \in ChildRun(get(r, s), Str(action.value))}
    ELSE {[state |-> s, units |-> <<>>]}

\* the parent reducer run on the state of the child step: the state it returns,
\* and the child's units, the parent's units and the teardown in this order
ParentSecond(r, p, action) ==
    {[state |-> q.state,
      units |-> p.units \o resolveEffect(q.effect, <<>>)
                \o (IF getChildId(r, p.state) # getChildId(r, q.state)
                       /\ getChildId(r, p.state) # NoId
                    THEN <<[NoUnit EXCEPT !.kind = "cancel-scope",
                                          !.scope = <<getChildId(r, p.state)>>]>>
                    ELSE <<>>)]
     : q \in ParentRun(r, p.state, action)}

\* C24: on each action the store is about to process, the child reducer runs
\* first on the child slot of the incoming state, the parent reducer second on
\* the state the child step returned, and the effect resolves to the child's
\* units, the parent's units and the teardown cancel-scope, in this order.
C24_ChildThenParent ==
    (reducer \in {"ifLet", "ifCaseLet"} /\ AtLoopTop /\ ~LoopBreaks(Top)) =>
        LET action == Head(Top.pendingActions)
        IN  {[state |-> o.state, units |-> resolveEffect(o.effect, <<>>)]
             : o \in run(reducer, state, action)}
              = UNION {ParentSecond(reducer, p, action)
                       : p \in ChildFirst(reducer, state, action)}

\* the child has returned an effect for the action just processed and the
\* parent, run on the state the child returned, has replaced the child "y" the
\* child step left: the child's unit, then the teardown
C24_Witness ==
    /\ stack # <<>>
    /\ Top.proc # <<>>
    /\ Top.proc[Len(Top.proc)] = Obj("child", "x")
    /\ Top.oldState.child.id = "x"
    /\ Top.oldChildId = "y"
    /\ Len(Top.units) = 2
    /\ Top.units[1].kind = "long-running"
    /\ Top.units[1].node.label \in ChildIds
    /\ Top.units[2].kind = "cancel-scope"
    /\ Top.units[2].scope = <<"y">>

\* the actions that map into the child's action type
ChildActions == {a \in SendActions("ifLet") : ~Falsy(extract(a))}

\* C18: while the slot of an ifLet or ifCaseLet holds no child, the child step
\* on a child action returns the state it was given and Effect.none, and the
\* operator returns exactly what the parent reducer returns for that state and
\* action.
C18_AbsentChildIsNoOp ==
    (reducer \in {"ifLet", "ifCaseLet"} /\ get(reducer, state) = NoChild) =>
        \A action \in ChildActions :
            /\ reduceChild(reducer, state, action)
                  = {[state |-> state, effect |-> EffectNone]}
            /\ {[state |-> o.state, effect |-> o.effect]
                 : o \in run(reducer, state, action)}
                  = ParentRun(reducer, state, action)

\* the store has processed a child action while the slot held no child, and
\* the slot is still empty
C18_Witness ==
    /\ stack # <<>>
    /\ Top.proc # <<>>
    /\ Top.proc[Len(Top.proc)] \in ChildActions
    /\ Top.pendingActions = <<>>
    /\ Top.oldChildId = NoId
    /\ get(reducer, state) = NoChild

----------------------------------------------------------------------------
(* A store built with the sequencer reducer *)

InitOrder == InitStore("sequencer")

NextOrder ==
    \/ \E a \in SendActions(reducer) : Send(a)
    \/ ProcessAction
    \/ LoopEnd
    \/ ProcessResolvedEffect
    \/ CancelStep
    \/ CancelDone
    \/ \E c \in 1..Len(contexts) : Produce(c)
    \/ \E c \in 1..Len(contexts) : Deliver(c)

SpecOrder == InitOrder /\ [][NextOrder]_vars

\* C27: when the store has processed a cancel-scope(p) unit, every long-running
\* effect that an earlier unit of the list or an earlier action registered at
\* or below p is cancelled, and no long-running effect of a later unit of the
\* list is.  The unit of a context has been processed (by an earlier unit of the
\* list or for an earlier action) once its phase is no longer "resolved".
C27_UnitsInListOrder ==
    [][\A p \in {<<"a">>} :
          EndsCancelScope(p) =>
             \A c \in 1..Len(contexts) :
                /\ (contexts[c].phase # "resolved" /\ IsPrefix(p, contexts[c].scope))
                      => contexts'[c].isCancelled
                /\ contexts[c].phase = "resolved" => ~contexts'[c].isCancelled]_vars

\* the effect that comes after the cancel-scope in its list runs, while the
\* effect an earlier action registered below a is cancelled
C27_Witness ==
    /\ Len(contexts) = 2
    /\ contexts[1].isCancelled
    /\ contexts[1].scope = <<"a", "b">>
    /\ contexts[1].phase # "done"
    /\ contexts[2].scope = <<"a", "b">>
    /\ contexts[2].phase = "running"
    /\ ~contexts[2].isCancelled

----------------------------------------------------------------------------
(* ScopedStore.subscribe: src/src/index.ts 370-380, over a RootStore whose   *)
(* reducer replaces the state.  bench holds lastState of the wrapper's       *)
(* closure and, as history, the projection last passed to the callback,      *)
(* whether the last call of the wrapper called the callback, and with what.  *)

toLocalState(x) == x.child

\* the id the wrapper is registered under in the root store
ScopedId == "scoped/u1"

\* no projection was passed to the callback yet
Never == [t |-> "never", kind |-> "", value |-> ""]

InitScoped ==
    /\ InitFields("projected")
    /\ bench = [lastState |-> Null, delivered |-> Never, called |-> FALSE, arg |-> Never]

\* subscribe(id, callback): `let lastState = null`, and the wrapper registered
ScopedSubscribe ==
    /\ stack = <<>>
    /\ \A i \in 1..Len(callbacks) : callbacks[i] # ScopedId
    /\ callbacks' = Append(callbacks, ScopedId)
    /\ bench' = [lastState |-> Null, delivered |-> Never, called |-> FALSE, arg |-> Never]
    /\ UNCHANGED <<log, state, reducer, namedEffects, effectTree, contexts, stack>>

ScopedUnsubscribe ==
    /\ stack = <<>>
    /\ \E i \in 1..Len(callbacks) :
          /\ callbacks[i] = ScopedId
          /\ callbacks' = RemoveAt(callbacks, i)
    /\ UNCHANGED <<bench, log, state, reducer, namedEffects, effectTree, contexts, stack>>

\* the wrapper called with the root state x
Wrapper(b, x) ==
    LET newState == toLocalState(x)
    IN  IF newState = b.lastState THEN [b EXCEPT !.called = FALSE]
        ELSE [b EXCEPT !.lastState = newState, !.delivered = newState,
                       !.called = TRUE, !.arg = newState]

\* the root store calls the wrapper with this.state
ScopedNotify ==
    /\ stack # <<>>
    /\ Top.phase = "notify"
    /\ Top.toNotify # <<>>
    /\ Head(Top.toNotify) = ScopedId
    /\ stack' = SetTop(Called(Top))
    /\ bench' = Wrapper(bench, state)
    /\ UNCHANGED <<log, state, reducer, namedEffects, effectTree, callbacks, contexts>>

NextScoped ==
    \/ \E a \in SendActions(reducer) : Send(a)
    \/ ProcessAction
    \/ LoopEnd
    \/ ScopedNotify
    \/ Return
    \/ ScopedSubscribe
    \/ ScopedUnsubscribe

SpecScoped == InitScoped /\ [][NextScoped]_vars

\* C25: at each root notification the callback of a ScopedStore subscriber is
\* called iff the projection differs from the one last passed to it, and then
\* with the projection; the first root notification after subscribe calls it
\* whatever the projection is.
C25_DeliversChanges ==
    [][ScopedNotify =>
          /\ bench'.called <=> toLocalState(state) # bench.delivered
          /\ bench'.called => bench'.arg = toLocalState(state)]_vars

----------------------------------------------------------------------------
(* The counter store: state {count: 0}, a reducer that adds 1 per increment  *)

InitCounter == InitStore("counter")

NextCounter ==
    \/ \E a \in SendActions(reducer) : Send(a)
    \/ ProcessAction
    \/ LoopEnd
    \/ Notify
    \/ Return
    \/ \E i \in SubIds : Subscribe(i)

SpecCounter == InitCounter /\ [][NextCounter]_vars

\* C10: once the dispatches made so far have returned, count is the number of
\* increment actions dispatched and every registered subscriber has been called
\* once per increment action dispatched since it was registered.
C10_CountsAndNotifies ==
    stack = <<>> =>
       /\ state.count = log.dispatched
       /\ \A i \in 1..Len(callbacks) :
             log.notified[callbacks[i]] = log.dispatched - log.since[callbacks[i]]

\* two increments dispatched and returned, with a subscriber registered from the start
C10_Witness ==
    /\ stack = <<>>
    /\ log.dispatched = 2
    /\ state.count = 2
    /\ \E i \in 1..Len(callbacks) :
          log.since[callbacks[i]] = 0 /\ log.notified[callbacks[i]] = 2

----------------------------------------------------------------------------------------------------------------------------------------
(* An Effect value built with the Effect API outside a store: leaves are     *)
(* combined by map, cancellationScope and merge, and by assigning the node   *)
(* field (SpecEffect).                                                       *)

EffectLeaves ==
    {EffectNone, ActionEffect(Str("x")),
     cancellationScope(cancelScope(<<"c">>), "b"),
     AsyncEffect("generator", "poll", "none", "g")}

Transforms == {"embed"}
ScopeNames == {"a"}

\* the Effect objects of the tree
RECURSIVE Size(_)
Size(e) ==
    LET upTo[i \in 0..Len(e.children)] ==
            IF i = 0 THEN 0 ELSE upTo[i - 1] + Size(e.children[i])
    IN  1 + upTo[Len(e.children)]

\* the map() calls seen by the node of the tree that has seen most
RECURSIVE Maps(_)
Maps(e) ==
    LET upTo[i \in 0..Len(e.children)] ==
            IF i = 0 THEN Len(e.node.map)
            ELSE LET m == Maps(e.children[i])
                 IN  IF m > upTo[i - 1] THEN m ELSE upTo[i - 1]
    IN  upTo[Len(e.children)]

InitEffect == InitStore("none")

\* `const e = new Effect(); e.node = ...`, or Effect.none, cancelScope, cancelId
Leaf(l) ==
    /\ bench' = l
    /\ UNCHANGED storeVars

\* `e.node = ...` on a merged effect
WithNode(l) ==
    /\ bench.node.kind = "none"
    /\ bench.children # <<>>
    /\ l.node.kind # "none"
    /\ bench' = [bench EXCEPT !.node = l.node]
    /\ UNCHANGED storeVars

Scoped(name) ==
    /\ Len(bench.scope) < MaxScope
    /\ bench' = cancellationScope(bench, name)
    /\ UNCHANGED storeVars

Mapped(f) ==
    /\ Maps(bench) < MaxMaps
    /\ bench' = map(bench, f)
    /\ UNCHANGED storeVars

\* Effect.merge of the effect with a leaf, on either side
Merged(l) ==
    /\ \E effects \in {<<l, bench>>, <<bench, l>>} :
          /\ Size(merge(effects)) <= MaxNodes
          /\ bench' = merge(effects)
    /\ UNCHANGED storeVars

NextEffect ==
    \/ \E l \in EffectLeaves : Leaf(l)
    \/ \E l \in {ActionEffect(Str("y"))} : WithNode(l)
    \/ \E name \in ScopeNames : Scoped(name)
    \/ \E f \in Transforms : Mapped(f)
    \/ \E l \in EffectLeaves : Merged(l)

SpecEffect == InitEffect /\ [][NextEffect]_vars

\* the scopes resolveEffect is called with
ResolveScopes == {<<>>, <<"s">>}

\* the scope prefixes of the tree, node by node, in the shape of the tree
RECURSIVE ScopeTree(_)
ScopeTree(e) ==
    [scope |-> e.scope,
     children |-> [i \in 1..Len(e.children) |-> ScopeTree(e.children[i])]]

\* C11: e.map(f) has the scope prefix of e at every node of the tree, and every
\* cancel-scope and long-running unit of resolveEffect(e.map(f), s) has the
\* scope of the unit at the same position of resolveEffect(e, s).
C11_MapKeepsScopes ==
    \A f \in Transforms, s \in ResolveScopes :
        LET u == resolveEffect(bench, s)
            v == resolveEffect(map(bench, f), s)
        IN  /\ ScopeTree(map(bench, f)) = ScopeTree(bench)
            /\ Len(v) = Len(u)
            /\ \A i \in 1..Len(u) :
                  u[i].kind \in {"cancel-scope", "long-running"}
                     => v[i].scope = u[i].scope

\* C12: resolveEffect(e.map(f), s) has as many units as resolveEffect(e, s), of
\* the same kinds in the same order, and the value of each action unit is f
\* applied to the value of the action unit at the same position.
C12_MapTransformsActions ==
    \A f \in Transforms, s \in ResolveScopes :
        LET u == resolveEffect(bench, s)
            v == resolveEffect(map(bench, f), s)
        IN  /\ Len(v) = Len(u)
            /\ \A i \in 1..Len(u) :
                  /\ v[i].kind = u[i].kind
                  /\ u[i].kind = "action" => v[i].value = Transform(f, u[i].value)
                  /\ u[i].kind = "cancel-id" => v[i].id = u[i].id

\* an effect with an action unit behind another unit has been mapped
C12_Witness ==
    /\ Maps(bench) = 1
    /\ Len(resolveEffect(bench, <<>>)) = 3
    /\ resolveEffect(bench, <<>>)[1].kind = "long-running"
    /\ resolveEffect(bench, <<>>)[3].kind = "action"
    /\ resolveEffect(bench, <<>>)[3].value = Obj("child", "x")

\* the inputs merge is called with: the effect built so far, Effect.none, two
\* empty effects that are not Effect.none, and a leaf
MergeInputs ==
    {bench, EffectNone, cancellationScope(EffectNone, "a"),
     EffectOf(NoNode, <<EffectNone>>, <<>>), ActionEffect(Str("y"))}

MergeLists ==
    {<<>>} \cup {<<a>> : a \in MergeInputs}
           \cup {<<a, b>> : a \in MergeInputs, b \in MergeInputs}
           \cup {<<a, b, c>> : a \in {bench}, b \in MergeInputs, c \in MergeInputs}

NonEmptyAt(effects) == {i \in 1..Len(effects) : ~isEmpty(effects[i])}

\* the i-th smallest member of a set of positions
Nth(S, i) == CHOOSE k \in S : Cardinality({j \in S : j < k}) = i - 1

\* C13: merge returns none when every input is empty, the one non-empty input
\* when there is exactly one, and otherwise a parent without node whose
\* children are the non-empty inputs in argument order; the result is empty
\* iff every input is empty.
C13_MergeShape ==
    \A effects \in MergeLists :
        LET S == NonEmptyAt(effects)
            m == merge(effects)
        IN  /\ S = {} => m = EffectNone
            /\ Cardinality(S) = 1 => m = effects[Nth(S, 1)]
            /\ Cardinality(S) > 1 =>
                  /\ m.node = NoNode
                  /\ m.scope = <<>>
                  /\ Len(m.children) = Cardinality(S)
                  /\ \A i \in 1..Cardinality(S) : m.children[i] = effects[Nth(S, i)]
            /\ isEmpty(m) <=> S = {}

\* the effect built so far is a non-empty tree with a scope, so merging it with
\* empty inputs returns it and merging it with a leaf makes it a child
C13_Witness ==
    /\ ~isEmpty(bench)
    /\ bench.scope # <<>>
    /\ bench.children # <<>>
    /\ merge(<<EffectNone, bench, cancellationScope(EffectNone, "a")>>) = bench
    /\ Len(merge(<<bench, ActionEffect(Str("y"))>>).children) = 2

\* the nodes of an effect tree that resolveEffect visits, each named by the
\* child positions leading to it
RECURSIVE Addresses(_)
Addresses(e) ==
    IF isEmpty(e) THEN {}
    ELSE {<<>>} \cup UNION {{<<i>> \o a : a \in Addresses(e.children[i])} :
                               i \in 1..Len(e.children)}

RECURSIVE EffectAt(_, _)
EffectAt(e, a) == IF a = <<>> THEN e ELSE EffectAt(e.children[Head(a)], Tail(a))

RECURSIVE ScopeAt(_, _, _)
ScopeAt(e, a, scope) ==
    IF a = <<>> THEN scope \o e.scope
    ELSE ScopeAt(e.children[Head(a)], Tail(a), scope \o e.scope)

NodeAddresses(e) == {a \in Addresses(e) : EffectAt(e, a).node.kind # "none"}

\* pre-order: an ancestor before its descendants, an earlier child before a
\* later one
RECURSIVE Before(_, _)
Before(a, b) ==
    IF a = <<>> THEN b # <<>>
    ELSE IF b = <<>> THEN FALSE
    ELSE IF Head(a) # Head(b) THEN Head(a) < Head(b)
    ELSE Before(Tail(a), Tail(b))

\* C14: resolveEffect returns one unit per node in pre-order: the unit of a
\* node stands after the units of exactly the nodes that are its ancestors or
\* lie in an earlier child; an empty effect resolves to the empty list.
C14_PreOrder ==
    \A s \in ResolveScopes :
        LET units == resolveEffect(bench, s)
            N == NodeAddresses(bench)
        IN  /\ isEmpty(bench) => units = <<>>
            /\ Len(units) = Cardinality(N)
            /\ \A a \in N :
                  units[1 + Cardinality({b \in N : Before(b, a)})]
                      = resolveEffectNode(EffectAt(bench, a).node, ScopeAt(bench, a, s))

\* the unit resolveEffect(e, scope) returns for the node at address a
UnitAt(e, a, scope) ==
    resolveEffect(e, scope)[1 + Cardinality({b \in NodeAddresses(e) : Before(b, a)})]

\* C23: the unit of a node is resolved under the scope resolveEffect was called
\* with followed by the scope prefixes of the effects from the root down to the
\* node: a cancel-scope unit has that scope followed by the node's own path, a
\* long-running unit has that scope; cancel-id and action units are the nodes.
C23_ScopeTopDown ==
    \A s \in ResolveScopes :
        \A a \in NodeAddresses(bench) :
            LET node == EffectAt(bench, a).node
                u == UnitAt(bench, a, s)
            IN  IF node.kind = "cancel-scope"
                THEN u.kind = "cancel-scope" /\ u.scope = ScopeAt(bench, a, s) \o node.scope
                ELSE IF node.kind = "cancel-id"
                THEN u.kind = "cancel-id" /\ u.id = node.id
                ELSE IF node.kind = "action"
                THEN u.kind = "action" /\ u.value = node.value
                ELSE /\ u.kind = "long-running"
                     /\ u.scope = ScopeAt(bench, a, s)
                     /\ u.id = node.id

\* a cancel-scope node below two effects with different scope prefixes, beside
\* a long-running node
C23_Witness ==
    /\ Len(resolveEffect(bench, <<"s">>)) = 2
    /\ resolveEffect(bench, <<"s">>)[1].kind = "cancel-scope"
    /\ resolveEffect(bench, <<"s">>)[1].scope = <<"s", "a", "b", "c">>
    /\ resolveEffect(bench, <<"s">>)[2].kind = "long-running"
    /\ resolveEffect(bench, <<"s">>)[2].scope = <<"s", "a">>

\* a parent with a node of its own and two children with distinct units
C14_Witness ==
    /\ bench.node.kind = "action"
    /\ Len(bench.children) = 2
    /\ Len(resolveEffect(bench, <<>>)) >= 3
    /\ resolveEffect(bench, <<>>)[2] # resolveEffect(bench, <<>>)[3]

----------------------------------------------------------------------------
(* The composition operators Scope and CombineReducers applied to states and
   actions: src/src/Reducer.ts 38-110.  bench holds the reducer under study,
   the state it was first given or last returned, and the action it was last
   given with the effect it returned. *)

ScopeReducers == {"scopeKey", "scopeCase"}
CombinedReducers == {"counter2", "combined"}

\* the states a reducer is first given
ReducerInputs(r) ==
    IF r = "scopeKey"
    THEN {[kind |-> "root", child |-> [id |-> i, n |-> 0]] : i \in ChildIds}
    ELSE IF r = "scopeCase"
    THEN {[kind |-> "child", child |-> [id |-> i, n |-> 0]] : i \in ChildIds}
         \cup {[kind |-> "idle", child |-> NoChild]}
    ELSE {[count |-> 0]}

\* the actions a reducer is given
ReducerActions(r) ==
    IF r \in ScopeReducers
    THEN {Obj("child", "x"), Obj("child", ""), Obj("parent", "x"), Str("x")}
    ELSE {Obj("increment", ""), Obj("noop", "")}

InitReducer ==
    /\ InitFields("none")
    /\ bench \in UNION {[reducer : {r}, state : ReducerInputs(r), action : {Null},
                         effect : {EffectNone}]
                        : r \in ScopeReducers \cup CombinedReducers}

\* the Scope under study is run on the state held and an action
RunScope(action) ==
    /\ bench.reducer \in ScopeReducers
    /\ \E o \in run(bench.reducer, bench.state, action) :
          bench' = [bench EXCEPT !.state = o.state, !.action = action,
                                 !.effect = o.effect]
    /\ UNCHANGED storeVars

\* the CombineReducers under study is run on the state held and an action
RunCombined(action) ==
    /\ bench.reducer \in CombinedReducers
    /\ bench.state.count < MaxCount
    /\ \E o \in run(bench.reducer, bench.state, action) :
          bench' = [bench EXCEPT !.state = o.state, !.action = action,
                                 !.effect = o.effect]
    /\ UNCHANGED storeVars

NextReducer ==
    \/ \E action \in ReducerActions("scopeKey") : RunScope(action)
    \/ \E action \in ReducerActions("counter2") : RunCombined(action)

SpecReducer == InitReducer /\ [][NextReducer]_vars

\* each reducer of a list run on the state the one before it returned; the
\* resolved effects of all of them in list order
RECURSIVE Threaded(_, _, _)
Threaded(rs, s, action) ==
    IF rs = <<>> THEN {[state |-> s, units |-> <<>>]}
    ELSE UNION {{[state |-> q.state, units |-> resolveEffect(p.effect, <<>>) \o q.units]
                 : q \in Threaded(Tail(rs), p.state, action)}
                : p \in run(Head(rs), s, action)}

ScopeCaseRuns(action) ==
    /\ bench.reducer = "scopeCase"
    /\ bench.state.kind = "child"
    /\ action.t = "obj" /\ action.kind = "child" /\ action.value # ""

\* C16 as stated: a Scope with a partial state accessor that runs the child
\* returns the parent state it was given.
C16_ParentStateReturned ==
    \A action \in ReducerActions(bench.reducer) :
        ScopeCaseRuns(action) =>
            \A o \in run(bench.reducer, bench.state, action) : o.state = bench.state

\* C16 amended: a Scope with a partial state accessor that runs the child
\* returns the child's case holding the state the child reducer returned, with
\* the child's effect mapped through the embedding of the action.
C16_ChildStateEmbedded ==
    \A action \in ReducerActions(bench.reducer) :
        ScopeCaseRuns(action) =>
            {[state |-> o.state, effect |-> o.effect]
             : o \in run(bench.reducer, bench.state, action)}
              = {[state |-> [kind |-> "child", child |-> c.state],
                  effect |-> map(c.effect, "embed")]
                 : c \in ChildRun(bench.state.child, Str("x"))}

\* the Scope has returned a state whose child differs from the child it was
\* first given
C16_Witness ==
    /\ bench.reducer = "scopeCase"
    /\ bench.action = Obj("child", "x")
    /\ bench.state.kind = "child"
    /\ bench.state.child.n = 1
    /\ bench.effect # EffectNone

\* C17: a Scope given an action that holds no child action, or (partial state
\* accessor) a state outside the child's case, returns the state it was given
\* and Effect.none and does not run the child.
C17_ScopeNoOp ==
    bench.reducer \in ScopeReducers =>
        \A action \in ReducerActions(bench.reducer) :
            (\/ action.t # "obj"
             \/ action.kind # "child"
             \/ (bench.reducer = "scopeCase" /\ bench.state.kind # "child"))
                => run(bench.reducer, bench.state, action)
                      = {[state |-> bench.state, effect |-> EffectNone,
                          oldChildId |-> NoId]}

\* a Scope whose child has run before has been given an action of the parent
C17_Witness ==
    /\ bench.reducer \in ScopeReducers
    /\ bench.action = Obj("parent", "x")
    /\ bench.state.child # NoChild
    /\ bench.state.child.n = 1
    /\ bench.effect = EffectNone

\* C26: a Scope with a total state accessor, given any action that holds a child
\* action, whatever its payload, returns the results of one run of the child
\* reducer on the child field: the state with that field replaced and every
\* other field kept, and the child's effect mapped through the embedding.
C26_TotalScopeRunsChild ==
    bench.reducer = "scopeKey" =>
        \A action \in ReducerActions(bench.reducer) :
            (action.t = "obj" /\ action.kind = "child") =>
                {[state |-> o.state, effect |-> o.effect]
                 : o \in run(bench.reducer, bench.state, action)}
                  = {[state |-> [bench.state EXCEPT !.child = c.state],
                      effect |-> map(c.effect, "embed")]
                     : c \in ChildRun(bench.state.child, Str(action.value))}

====
